---- MODULE Spec2Model ----
(***************************************************************************)
(* Batch pipeline of the LinkedIn profile analyzer (src/main.py):          *)
(* batch_analyze -> process_csv_batch -> save_batch_results.               *)
(*                                                                         *)
(* Text is modelled as a sequence of tokens (each token a piece of the     *)
(* Python string), so that strip(), the substring test and the f-string    *)
(* messages are computed rather than assumed.                              *)
(***************************************************************************)
EXTENDS Integers, Sequences, FiniteSets, TLC

VARIABLES csv, pc, urls, i, results, errors, profile_data, session, calls,
          exc, returned, files, saved, clock, requests, disk

vars == <<csv, pc, urls, i, results, errors, profile_data, session, calls,
          exc, returned, files, saved, clock, requests, disk>>

(* ------------------------------ bounds --------------------------------- *)
\* most data rows in an uploaded CSV
MaxRows == 2

\* last reading of the wall clock, in ticks
MaxClock == 3

\* clock ticks in one second (datetime.now() is finer than the "%S" of the
\* file names)
TicksPerSecond == 2
\* most Success / Failure records handed directly to save_batch_results
MaxSaved == 3

(* ------------------------------ text ----------------------------------- *)
SP == " "
\* the profile-locator pattern tested at main.py:177
Pattern == <<"linkedin.com/in/">>
url_column == "profile_url"

EmptyCell == <<>>
BlankCell == <<SP>>
NotUrlCell == <<"not-a-url">>
UrlA == <<"https://", "linkedin.com/in/", "a">>
PaddedUrlB == <<SP, "https://", "linkedin.com/in/", "b", SP>>
UrlB == <<"https://", "linkedin.com/in/", "b">>
NameCell == <<"Ada">>

\* str.strip(): drop leading and trailing whitespace
RECURSIVE LStrip(_)
LStrip(s) == IF s # <<>> /\ Head(s) = SP THEN LStrip(Tail(s)) ELSE s

RECURSIVE RStrip(_)
RStrip(s) ==
    IF s # <<>> /\ s[Len(s)] = SP THEN RStrip(SubSeq(s, 1, Len(s) - 1)) ELSE s

Strip(s) == RStrip(LStrip(s))

\* Python's `pat in s` on strings
Contains(s, pat) ==
    \E k \in 0..(Len(s) - Len(pat)) : SubSeq(s, k + 1, k + Len(pat)) = pat

(* --------------------------- csv.DictReader ---------------------------- *)
\* the cell is None when the row is shorter than the header (restval)
NoneCell == [none |-> TRUE, text |-> <<>>]
Cell(s) == [none |-> FALSE, text |-> s]

ColumnIndex(fieldnames, col) ==
    CHOOSE k \in 1..Len(fieldnames) : fieldnames[k] = col

\* row.get(url_column, '') on the dict DictReader builds for one row
RowGet(fieldnames, row, col) ==
    IF ~(\E k \in 1..Len(fieldnames) : fieldnames[k] = col) THEN Cell(<<>>)
    ELSE IF ColumnIndex(fieldnames, col) <= Len(row)
         THEN Cell(row[ColumnIndex(fieldnames, col)])
         ELSE NoneCell

(* ------------------------------ errors --------------------------------- *)
NoExc == [type |-> "none", msg |-> <<>>]
Exc(t, m) == [type |-> t, msg |-> m]

\* subclasses of Exception; KeyboardInterrupt is a BaseException only
IsException(e) == e.type \in {"ValueError", "TypeError", "AttributeError",
                               "ZeroDivisionError", "OSError", "Error"}

ColumnError(fieldnames) ==
    Exc("ValueError", <<"Column '", url_column,
                        "' not found in CSV. Available columns: ">> \o fieldnames)

EmptyError == Exc("ValueError", <<"No valid LinkedIn URLs found in the CSV file">>)

\* the `for row in csv_reader` loop, main.py:174-178
RECURSIVE CollectUrls(_, _, _)
CollectUrls(fieldnames, rows, acc) ==
    IF rows = <<>> THEN [exc |-> NoExc, urls |-> acc]
    ELSE IF Head(rows) = <<>> THEN CollectUrls(fieldnames, Tail(rows), acc)
    ELSE LET cell == RowGet(fieldnames, Head(rows), url_column) IN
         IF cell.none
         THEN [exc |-> Exc("AttributeError",
                           <<"'NoneType' object has no attribute 'strip'">>),
               urls |-> acc]
         ELSE LET url == Strip(cell.text) IN
              IF url # <<>> /\ Contains(url, Pattern)
              THEN CollectUrls(fieldnames, Tail(rows), Append(acc, url))
              ELSE CollectUrls(fieldnames, Tail(rows), acc)

\* the parser without the empty-batch check of main.py:180
ParseCsv_NoEmptyCheck(input) ==
    IF input.fieldnames_none
    THEN [exc |-> Exc("TypeError", <<"argument of type 'NoneType' is not iterable">>),
          urls |-> <<>>]
    ELSE IF ~(\E k \in 1..Len(input.fieldnames) : input.fieldnames[k] = url_column)
    THEN [exc |-> ColumnError(input.fieldnames), urls |-> <<>>]
    ELSE CollectUrls(input.fieldnames, input.rows, <<>>)

\* main.py:166-181: read, validate the column, filter, reject an empty batch
ParseCsv(input) ==
    IF input.fieldnames_none
    THEN [exc |-> Exc("TypeError", <<"argument of type 'NoneType' is not iterable">>),
          urls |-> <<>>]
    ELSE IF ~(\E k \in 1..Len(input.fieldnames) : input.fieldnames[k] = url_column)
    THEN [exc |-> ColumnError(input.fieldnames), urls |-> <<>>]
    ELSE LET r == CollectUrls(input.fieldnames, input.rows, <<>>) IN
         IF r.exc # NoExc THEN r
         ELSE IF r.urls = <<>> THEN [exc |-> EmptyError, urls |-> <<>>]
         ELSE r

(* ------------------------------ records -------------------------------- *)
\* what scraper.scrape_profile(url) can hand back: None, {}, a dict without
\* a name, a dict with a name
NoneRecord == [none |-> TRUE, keys |-> {}, name |-> <<>>]
EmptyRecord == [none |-> FALSE, keys |-> {}, name |-> <<>>]
NamelessRecord == [none |-> FALSE, keys |-> {"headline"}, name |-> <<>>]
NamedRecord == [none |-> FALSE, keys |-> {"name", "headline"}, name |-> NameCell]
ProfileRecords == {NoneRecord, EmptyRecord, NamelessRecord, NamedRecord}

\* what analyze_profile(profile_data, mode) can hand back: None, a dict with
\* an error marker, a dict with the generated text
NoneAnalysis == [none |-> TRUE, error |-> FALSE, result |-> <<>>]
ErrorAnalysis == [none |-> FALSE, error |-> TRUE, result |-> <<>>]
OkAnalysis == [none |-> FALSE, error |-> FALSE, result |-> <<"generated text">>]
AnalysisResults == {NoneAnalysis, ErrorAnalysis, OkAnalysis}

\* `profile_data is None` in place of `not profile_data`
NotProfile_NoneOnly(pd) == pd.none

\* `not profile_data`, main.py:210
NotProfile(pd) == pd.none \/ pd.keys = {}

\* `not analysis_result or analysis_result.get('error')`, main.py:223
NotAnalysis(ar) == ar.none \/ ar.error

\* profile_data.get('name') as a truth value, main.py:315
HasName(pd) == "name" \in pd.keys /\ pd.name # <<>>

\* the message of an exception raised by a collaborator
CollabMsg == "Timeout 30000ms exceeded"

ScrapeFailedMsg(url) == <<"Failed to scrape", " profile: ">> \o url
AnalysisFailedMsg(url) == <<"Failed to generate analysis for: ">> \o url
ProcessingErrorMsg(url, e) == <<"Error processing ">> \o url \o <<": ", e.msg[1]>>

ErrorRecord(url, msg, idx) == [url |-> url, error |-> msg, index |-> idx]

ResultRecord(url, pd, ar, idx) ==
    [url |-> url, profile_data |-> pd, analysis_result |-> ar, index |-> idx]

\* main.py:194
LoginFailure ==
    ErrorRecord(<<"login_failed">>, <<"Failed to login to LinkedIn">>, 0)

\* one entry of the log of collaborator calls: what was called, for which
\* item, and how the call ended
Call(op, idx, out) == [op |-> op, idx |-> idx, out |-> out]

ScrapeOut(pd) ==
    IF pd.none THEN "none"
    ELSE IF pd.keys = {} THEN "empty"
    ELSE IF HasName(pd) THEN "named" ELSE "nameless"

AnalyzeOut(ar) == IF ar.none THEN "none" ELSE IF ar.error THEN "error" ELSE "ok"

NotReturned == [state |-> "none", results |-> <<>>, errors |-> <<>>]
Returning(st, rs, es) == [state |-> st, results |-> rs, errors |-> es]

NoFile == [exists |-> FALSE, complete |-> FALSE, rows |-> <<>>]
NoFiles == [results |-> NoFile, errors |-> NoFile, summary |-> NoFile]
NotSaved == [state |-> "none", errors_name |-> FALSE]

(* --------------------------- result aggregator ------------------------- *)
\* one row of the results artifact, main.py:286-338
ResultRow(r) ==
    [profile_url |-> r.url,
     name |-> IF "name" \in r.profile_data.keys THEN r.profile_data.name ELSE <<>>,
     analysis_result |-> r.analysis_result.result,
     processing_index |-> r.index,
     scraping_success |-> IF HasName(r.profile_data) THEN "Yes" ELSE "No",
     analysis_success |-> IF r.analysis_result.result # <<>> THEN "Yes" ELSE "No"]

ResultRows(rs) == [k \in 1..Len(rs) |-> ResultRow(rs[k])]

\* the substring looked for in the identifier instead of the reason
ErrorType_FromUrl(e) ==
    IF Contains(e.url, <<"Failed to scrape">>) THEN "scraping_error"
    ELSE "analysis_error"

\* main.py:349
ErrorType(e) ==
    IF Contains(e.error, <<"Failed to scrape">>) THEN "scraping_error"
    ELSE "analysis_error"

\* one row of the errors artifact, main.py:347-357
ErrorRow(e) ==
    [profile_url |-> e.url, error |-> e.error, index |-> e.index,
     error_type |-> ErrorType(e)]

ErrorRows(es) == [k \in 1..Len(es) |-> ErrorRow(es[k])]

\* f"{x:.1f}" of successes / total * 100, in tenths of a percent: the value
\* nearest to the quotient, a tie going to the even digit
RateTenths(s, f) ==
    LET n == 1000 * s
        d == s + f
        fl == n \div d
        r2 == 2 * (n % d)
    IN  IF r2 < d THEN fl
        ELSE IF r2 > d THEN fl + 1
        ELSE IF fl % 2 = 0 THEN fl ELSE fl + 1

\* the summary report, main.py:362-379; rate_written is false when line 368
\* raised before the rate line was written
SummaryText(rs, es, rate_written) ==
    [total |-> Len(rs) + Len(es),
     successes |-> Len(rs),
     failures |-> Len(es),
     rate_written |-> rate_written,
     rate |-> IF rate_written THEN RateTenths(Len(rs), Len(es)) ELSE 0,
     lines |-> IF rate_written THEN Len(rs) + Len(es) ELSE 0]

(* ------------------------------- inputs -------------------------------- *)
SeqsUpTo(S, n) == UNION {[1..k -> S] : k \in 0..n}

DataRows == {<<NameCell>>, <<NameCell, EmptyCell>>, <<NameCell, BlankCell>>,
             <<NameCell, NotUrlCell>>, <<NameCell, UrlA>>, <<NameCell, PaddedUrlB>>}

Headers == {<<"name">>, <<"name", url_column>>}

\* an empty upload has no header row: DictReader.fieldnames is None
CsvInputs ==
    {[fieldnames_none |-> TRUE, fieldnames |-> <<>>, rows |-> <<>>]}
    \cup {[fieldnames_none |-> FALSE, fieldnames |-> h, rows |-> rows] :
            h \in Headers, rows \in SeqsUpTo(DataRows, MaxRows)}

\* the batch_analyze requests the threaded server handles at once
Requests == {1, 2}

\* analysis_mode values of the form (main.py:98, 477)
Modes == {"bio", "summary"}

NoStamp == -1

\* a request slot nobody has posted to
NoRequest ==
    [pc |-> "idle", analysis_mode |-> "bio", has_results |-> FALSE,
     has_errors |-> FALSE, timestamp |-> NoStamp]

Init ==
    /\ csv \in CsvInputs
    /\ pc = "start"
    /\ urls = <<>>
    /\ i = 0
    /\ results = <<>>
    /\ errors = <<>>
    /\ profile_data = NoneRecord
    /\ session = "none"
    /\ calls = <<>>
    /\ exc = NoExc
    /\ returned = NotReturned
    /\ files = NoFiles
    /\ saved = NotSaved
    /\ clock = 0
    /\ requests = [r \in Requests |-> NoRequest]
    /\ disk = {}

(* -------------------------- process_csv_batch -------------------------- *)
\* main.py:164-183
ReadCsv ==
    /\ pc = "start"
    /\ LET r == ParseCsv(csv) IN
         IF r.exc # NoExc
         THEN /\ exc' = r.exc
              /\ pc' = "raised"
              /\ urls' = urls
         ELSE /\ urls' = r.urls
              /\ pc' = "create"
              /\ exc' = exc
    /\ UNCHANGED <<clock, requests, disk, csv, i, results, errors, profile_data, session, calls,
                   returned, files, saved>>

\* main.py:186-187
CreateScraper ==
    /\ pc = "create"
    /\ session' = "open"
    /\ calls' = Append(calls, Call("create", 0, "ok"))
    /\ pc' = "login"
    /\ UNCHANGED <<clock, requests, disk, csv, urls, i, results, errors, profile_data, exc, returned,
                   files, saved>>

\* the for statement at main.py:199 taking its next item, or the loop ending
Advance ==
    IF i < Len(urls) THEN i' = i + 1 /\ pc' = "goto"
    ELSE i' = i /\ pc' = "finally"

\* the login check without its early return: a refused login falls into the loop
Login_NoReturn ==
    /\ pc = "login"
    /\ \E out \in {"ok", "false", "raise"} :
         /\ calls' = Append(calls, Call("login", 0, out))
         /\ IF out = "raise"
            THEN /\ exc' = Exc("Error", <<CollabMsg>>)
                 /\ pc' = "finally"
                 /\ UNCHANGED <<i, returned>>
            ELSE /\ Advance
                 /\ UNCHANGED <<returned, exc>>
    /\ UNCHANGED <<clock, requests, disk, csv, urls, results, errors, profile_data, session, files,
                   saved>>

\* main.py:192-196
Login ==
    /\ pc = "login"
    /\ \E out \in {"ok", "false", "raise"} :
         /\ calls' = Append(calls, Call("login", 0, out))
         /\ CASE out = "ok" ->
                   /\ Advance
                   /\ UNCHANGED <<returned, exc>>
              [] out = "false" ->
                   /\ returned' = Returning("pending", <<>>, <<LoginFailure>>)
                   /\ pc' = "finally"
                   /\ UNCHANGED <<i, exc>>
              [] out = "raise" ->
                   /\ exc' = Exc("Error", <<CollabMsg>>)
                   /\ pc' = "finally"
                   /\ UNCHANGED <<i, returned>>
    /\ UNCHANGED <<clock, requests, disk, csv, urls, results, errors, profile_data, session, files,
                   saved>>

\* the handler swallowing the exception without recording the item
HandleItemException_Unrecorded(e) ==
    /\ errors' = errors
    /\ Advance

\* the handler recording the item and then leaving the loop
HandleItemException_Abort(e) ==
    /\ errors' = Append(errors,
                        ErrorRecord(urls[i], ProcessingErrorMsg(urls[i], e), i))
    /\ i' = i
    /\ pc' = "finally"

\* main.py:248-255
HandleItemException(e) ==
    /\ errors' = Append(errors,
                        ErrorRecord(urls[i], ProcessingErrorMsg(urls[i], e), i))
    /\ Advance

\* the navigation without the page-load wait of main.py:205
Goto_NoPause ==
    /\ pc = "goto"
    /\ \E raise \in BOOLEAN :
         IF raise
         THEN /\ calls' = Append(calls, Call("goto", i, "raise"))
              /\ HandleItemException(Exc("Error", <<CollabMsg>>))
         ELSE /\ calls' = Append(calls, Call("goto", i, "ok"))
              /\ pc' = "scrape"
              /\ UNCHANGED <<i, errors>>
    /\ UNCHANGED <<clock, requests, disk, csv, urls, results, profile_data, session, exc, returned,
                   files, saved>>

\* main.py:204
Goto ==
    /\ pc = "goto"
    /\ \E raise \in BOOLEAN :
         IF raise
         THEN /\ calls' = Append(calls, Call("goto", i, "raise"))
              /\ HandleItemException(Exc("Error", <<CollabMsg>>))
         ELSE /\ calls' = Append(calls, Call("goto", i, "ok"))
              /\ pc' = "delay24"
              /\ UNCHANGED <<i, errors>>
    /\ UNCHANGED <<clock, requests, disk, csv, urls, results, profile_data, session, exc, returned,
                   files, saved>>

\* main.py:205
RandomDelay24 ==
    /\ pc = "delay24"
    /\ calls' = Append(calls, Call("delay_2_4", i, "ok"))
    /\ pc' = "scrape"
    /\ UNCHANGED <<clock, requests, disk, csv, urls, i, results, errors, profile_data, session, exc,
                   returned, files, saved>>

\* main.py:208-218
Scrape ==
    /\ pc = "scrape"
    /\ \/ /\ calls' = Append(calls, Call("scrape", i, "raise"))
          /\ HandleItemException(Exc("Error", <<CollabMsg>>))
          /\ UNCHANGED profile_data
       \/ \E pd \in ProfileRecords :
            /\ calls' = Append(calls, Call("scrape", i, ScrapeOut(pd)))
            /\ profile_data' = pd
            /\ IF NotProfile(pd)
               THEN /\ errors' = Append(errors,
                          ErrorRecord(urls[i], ScrapeFailedMsg(urls[i]), i))
                    /\ Advance
               ELSE pc' = "analyze" /\ UNCHANGED <<i, errors>>
    /\ UNCHANGED <<clock, requests, disk, csv, urls, results, session, exc, returned, files, saved>>

\* main.py:221-243
Analyze ==
    /\ pc = "analyze"
    /\ \/ /\ calls' = Append(calls, Call("analyze", i, "raise"))
          /\ HandleItemException(Exc("Error", <<CollabMsg>>))
          /\ UNCHANGED results
       \/ \E ar \in AnalysisResults :
            /\ calls' = Append(calls, Call("analyze", i, AnalyzeOut(ar)))
            /\ IF NotAnalysis(ar)
               THEN /\ errors' = Append(errors,
                          ErrorRecord(urls[i], AnalysisFailedMsg(urls[i]), i))
                    /\ Advance
                    /\ UNCHANGED results
               ELSE /\ results' = Append(results,
                          ResultRecord(urls[i], profile_data, ar, i))
                    /\ pc' = "delay36"
                    /\ UNCHANGED <<i, errors>>
    /\ UNCHANGED <<clock, requests, disk, csv, urls, profile_data, session, exc, returned, files, saved>>

\* main.py:246
RandomDelay36 ==
    /\ pc = "delay36"
    /\ calls' = Append(calls, Call("delay_3_6", i, "ok"))
    /\ Advance
    /\ UNCHANGED <<clock, requests, disk, csv, urls, results, errors, profile_data, session, exc,
                   returned, files, saved>>

LoopPcs == {"goto", "delay24", "scrape", "analyze", "delay36"}

\* a KeyboardInterrupt raised inside the try block of main.py:189-255; it
\* is not an Exception, so the handler at main.py:248 does not take it
Interrupt ==
    /\ pc \in LoopPcs \cup {"login"}
    /\ exc' = Exc("KeyboardInterrupt", <<>>)
    /\ pc' = "finally"
    /\ UNCHANGED <<clock, requests, disk, csv, urls, i, results, errors, profile_data, session, calls,
                   returned, files, saved>>

\* close() written after the loop instead of in a finally block
Close_NotOnException ==
    /\ pc = "finally"
    /\ IF exc # NoExc
       THEN pc' = "raised" /\ UNCHANGED <<returned, session, calls>>
       ELSE /\ pc' = "returned"
            /\ session' = "closed"
            /\ calls' = Append(calls, Call("close", 0, "ok"))
            /\ returned' = IF returned.state = "pending"
                           THEN Returning("done", returned.results, returned.errors)
                           ELSE Returning("done", results, errors)
    /\ UNCHANGED <<clock, requests, disk, csv, urls, i, results, errors, profile_data, exc, files, saved>>

\* main.py:257-265: the finally block, then the return or the propagation
Close ==
    /\ pc = "finally"
    /\ session' = "closed"
    /\ calls' = Append(calls, Call("close", 0, "ok"))
    /\ IF exc # NoExc
       THEN pc' = "raised" /\ UNCHANGED returned
       ELSE /\ pc' = "returned"
            /\ returned' = IF returned.state = "pending"
                           THEN Returning("done", returned.results, returned.errors)
                           ELSE Returning("done", results, errors)
    /\ UNCHANGED <<clock, requests, disk, csv, urls, i, results, errors, profile_data, exc, files, saved>>

(* ------------------------------ batch_analyze -------------------------- *)
\* the route redirecting whenever there is no Success to save
RouteCheck_NoResults ==
    /\ pc = "returned"
    /\ pc' = IF returned.results = <<>>
             THEN "redirected" ELSE "save_results"
    /\ UNCHANGED <<clock, requests, disk, csv, urls, i, results, errors, profile_data, session, calls,
                   exc, returned, files, saved>>

\* main.py:486-492
RouteCheck ==
    /\ pc = "returned"
    /\ pc' = IF returned.results = <<>> /\ returned.errors = <<>>
             THEN "redirected" ELSE "save_results"
    /\ UNCHANGED <<clock, requests, disk, csv, urls, i, results, errors, profile_data, session, calls,
                   exc, returned, files, saved>>

\* main.py:518-526
RouteExcept ==
    /\ pc \in {"raised", "save_raised"}
    /\ IsException(exc)
    /\ pc' = "redirected"
    /\ UNCHANGED <<clock, requests, disk, csv, urls, i, results, errors, profile_data, session, calls,
                   exc, returned, files, saved>>

\* main.py:494-516
RouteSendFile ==
    /\ pc = "save_returned"
    /\ pc' = "sent"
    /\ UNCHANGED <<clock, requests, disk, csv, urls, i, results, errors, profile_data, session, calls,
                   exc, returned, files, saved>>

(* --------------------------- save_batch_results ------------------------ *)
\* a file opened with open(name, 'w') whose writing stopped after k rows
PartialFile(rows, k) ==
    [exists |-> TRUE, complete |-> FALSE, rows |-> SubSeq(rows, 1, k)]

WholeFile(rows) == [exists |-> TRUE, complete |-> TRUE, rows |-> rows]

\* the numbers of rows after which the write of n rows can fail
FailPoints(n) == IF n = 0 THEN {0} ELSE 0..(n - 1)

\* open() or a write raising inside save_batch_results: logged and raised
\* again at main.py:383-385
SaveRaises(e) ==
    /\ exc' = e
    /\ saved' = [state |-> "raised", errors_name |-> FALSE]
    /\ pc' = "save_raised"

DiskError == Exc("OSError", <<"No space left on device">>)

\* main.py:274-338
SaveResults ==
    /\ pc = "save_results"
    /\ \/ /\ files' = [files EXCEPT !.results = WholeFile(ResultRows(returned.results))]
          /\ pc' = "save_errors"
          /\ UNCHANGED <<exc, saved>>
       \/ /\ files' = files
          /\ SaveRaises(DiskError)
       \/ \E k \in FailPoints(Len(returned.results)) :
            /\ files' = [files EXCEPT !.results =
                           PartialFile(ResultRows(returned.results), k)]
            /\ SaveRaises(DiskError)
    /\ UNCHANGED <<clock, requests, disk, csv, urls, i, results, errors, profile_data, session, calls,
                   returned>>

\* the errors artifact written whether or not there is a Failure
SaveErrors_Always ==
    /\ pc = "save_errors"
    /\ files' = [files EXCEPT !.errors = WholeFile(ErrorRows(returned.errors))]
    /\ pc' = "save_summary"
    /\ UNCHANGED <<clock, requests, disk, csv, urls, i, results, errors, profile_data, session, calls,
                   exc, returned, saved>>

\* main.py:341-357
SaveErrors ==
    /\ pc = "save_errors"
    /\ IF returned.errors # <<>>
       THEN \/ /\ files' = [files EXCEPT !.errors = WholeFile(ErrorRows(returned.errors))]
               /\ pc' = "save_summary"
               /\ UNCHANGED <<exc, saved>>
            \/ /\ files' = files
               /\ SaveRaises(DiskError)
            \/ \E k \in FailPoints(Len(returned.errors)) :
                 /\ files' = [files EXCEPT !.errors =
                                PartialFile(ErrorRows(returned.errors), k)]
                 /\ SaveRaises(DiskError)
       ELSE /\ files' = files
            /\ pc' = "save_summary"
            /\ UNCHANGED <<exc, saved>>
    /\ UNCHANGED <<clock, requests, disk, csv, urls, i, results, errors, profile_data, session, calls,
                   returned>>

\* main.py:360-385
SaveSummary ==
    /\ pc = "save_summary"
    /\ \/ /\ files' = files
          /\ SaveRaises(DiskError)
       \/ /\ Len(returned.results) + Len(returned.errors) = 0
          /\ files' = [files EXCEPT !.summary =
                         [exists |-> TRUE, complete |-> FALSE,
                          rows |-> <<SummaryText(returned.results,
                                                 returned.errors, FALSE)>>]]
          /\ SaveRaises(Exc("ZeroDivisionError", <<"division by zero">>))
       \/ /\ Len(returned.results) + Len(returned.errors) > 0
          /\ files' = [files EXCEPT !.summary =
                         [exists |-> TRUE, complete |-> FALSE,
                          rows |-> <<SummaryText(returned.results,
                                                 returned.errors, FALSE)>>]]
          /\ SaveRaises(DiskError)
       \/ /\ Len(returned.results) + Len(returned.errors) > 0
          /\ files' = [files EXCEPT !.summary =
                         WholeFile(<<SummaryText(returned.results,
                                                 returned.errors, TRUE)>>)]
          /\ exc' = exc
          /\ saved' = [state |-> "returned",
                       errors_name |-> returned.errors # <<>>]
          /\ pc' = "save_returned"
    /\ UNCHANGED <<clock, requests, disk, csv, urls, i, results, errors, profile_data, session, calls,
                   returned>>

Next ==
    \/ ReadCsv
    \/ CreateScraper
    \/ Login
    \/ Goto
    \/ RandomDelay24
    \/ Scrape
    \/ Analyze
    \/ RandomDelay36
    \/ Interrupt
    \/ Close
    \/ RouteCheck
    \/ RouteExcept
    \/ RouteSendFile
    \/ SaveResults
    \/ SaveErrors
    \/ SaveSummary

Spec == Init /\ [][Next]_vars

(* ---------------- save_batch_results called on its own ----------------- *)
SavedResults ==
    {ResultRecord(UrlA, NamedRecord, OkAnalysis, 1),
     ResultRecord(UrlB, NamelessRecord, OkAnalysis, 2)}

SavedErrors ==
    {ErrorRecord(UrlA, ScrapeFailedMsg(UrlA), 1),
     ErrorRecord(UrlB, AnalysisFailedMsg(UrlB), 2),
     LoginFailure}

SaveInit ==
    /\ csv \in {c \in CsvInputs : c.fieldnames_none}
    /\ pc = "save_results"
    /\ urls = <<>>
    /\ i = 0
    /\ results = <<>>
    /\ errors = <<>>
    /\ profile_data = NoneRecord
    /\ session = "none"
    /\ calls = <<>>
    /\ exc = NoExc
    /\ \E rs \in SeqsUpTo(SavedResults, MaxSaved), es \in SeqsUpTo(SavedErrors, MaxSaved) :
         returned = Returning("done", rs, es)
    /\ files = NoFiles
    /\ saved = NotSaved
    /\ clock = 0
    /\ requests = [r \in Requests |-> NoRequest]
    /\ disk = {}

SaveNext == SaveResults \/ SaveErrors \/ SaveSummary

SaveSpec == SaveInit /\ [][SaveNext]_vars


(* ----------------- batch_analyze requests handled at once --------------- *)
\* datetime.now().strftime("%Y%m%d_%H%M%S"), main.py:271: the clock reading
\* cut down to whole seconds
Timestamp(now) == now \div TicksPerSecond

\* f"batch_results_{analysis_mode}_{timestamp}.csv", main.py:272
ResultsFilename(analysis_mode, timestamp) ==
    [prefix |-> "batch_results", mode |-> analysis_mode, stamp |-> timestamp,
     ext |-> "csv"]

\* f"batch_errors_{timestamp}.csv", main.py:342
ErrorsFilename(timestamp) ==
    [prefix |-> "batch_errors", mode |-> "", stamp |-> timestamp, ext |-> "csv"]

\* f"batch_summary_{timestamp}.txt", main.py:360
SummaryFilename(timestamp) ==
    [prefix |-> "batch_summary", mode |-> "", stamp |-> timestamp, ext |-> "txt"]

\* open(name, 'w') by request r: the file of that name now holds r's rows
OpenForWrite(name, r) == disk' = disk \cup {[name |-> name, by |-> r]}

\* the wall clock moves on
Tick ==
    /\ clock < MaxClock
    /\ clock' = clock + 1
    /\ UNCHANGED <<requests, disk>>
    /\ UNCHANGED <<csv, pc, urls, i, results, errors, profile_data, session,
                   calls, exc, returned, files, saved>>

\* main.py:484-488: process_csv_batch comes back after some time with its
\* two lists; both empty is the redirect of line 486
ProcessBatch(r) ==
    /\ requests[r].pc = "process"
    /\ \E hr \in BOOLEAN, he \in BOOLEAN :
         requests' = [requests EXCEPT
                        ![r].has_results = hr,
                        ![r].has_errors = he,
                        ![r].pc = IF hr \/ he THEN "stamp" ELSE "redirected"]
    /\ UNCHANGED <<clock, disk>>
    /\ UNCHANGED <<csv, pc, urls, i, results, errors, profile_data, session,
                   calls, exc, returned, files, saved>>

\* main.py:271-272
TakeTimestamp(r) ==
    /\ requests[r].pc = "stamp"
    /\ requests' = [requests EXCEPT ![r].timestamp = Timestamp(clock),
                                    ![r].pc = "results"]
    /\ UNCHANGED <<clock, disk>>
    /\ UNCHANGED <<csv, pc, urls, i, results, errors, profile_data, session,
                   calls, exc, returned, files, saved>>

\* main.py:274-338
WriteResults(r) ==
    /\ requests[r].pc = "results"
    /\ OpenForWrite(ResultsFilename(requests[r].analysis_mode,
                                    requests[r].timestamp), r)
    /\ requests' = [requests EXCEPT ![r].pc = "errors"]
    /\ UNCHANGED clock
    /\ UNCHANGED <<csv, pc, urls, i, results, errors, profile_data, session,
                   calls, exc, returned, files, saved>>

\* main.py:341-357
WriteErrors(r) ==
    /\ requests[r].pc = "errors"
    /\ IF requests[r].has_errors
       THEN OpenForWrite(ErrorsFilename(requests[r].timestamp), r)
       ELSE disk' = disk
    /\ requests' = [requests EXCEPT ![r].pc = "summary"]
    /\ UNCHANGED clock
    /\ UNCHANGED <<csv, pc, urls, i, results, errors, profile_data, session,
                   calls, exc, returned, files, saved>>

\* main.py:360-381
WriteSummary(r) ==
    /\ requests[r].pc = "summary"
    /\ OpenForWrite(SummaryFilename(requests[r].timestamp), r)
    /\ requests' = [requests EXCEPT ![r].pc = "saved"]
    /\ UNCHANGED clock
    /\ UNCHANGED <<csv, pc, urls, i, results, errors, profile_data, session,
                   calls, exc, returned, files, saved>>

ConcInit ==
    /\ csv \in {c \in CsvInputs : c.fieldnames_none}
    /\ pc = "start"
    /\ urls = <<>>
    /\ i = 0
    /\ results = <<>>
    /\ errors = <<>>
    /\ profile_data = NoneRecord
    /\ session = "none"
    /\ calls = <<>>
    /\ exc = NoExc
    /\ returned = NotReturned
    /\ files = NoFiles
    /\ saved = NotSaved
    /\ clock = 0
    /\ requests \in [Requests -> {[NoRequest EXCEPT !.pc = "process",
                                                     !.analysis_mode = m] :
                                    m \in Modes}]
    /\ disk = {}

ConcNext ==
    \/ Tick
    \/ \E r \in Requests : ProcessBatch(r)
    \/ \E r \in Requests : TakeTimestamp(r)
    \/ \E r \in Requests : WriteResults(r)
    \/ \E r \in Requests : WriteErrors(r)
    \/ \E r \in Requests : WriteSummary(r)

ConcSpec == ConcInit /\ [][ConcNext]_vars

(* ============================== properties ============================= *)
HasCall(op, k, outs) ==
    \E j \in 1..Len(calls) :
       calls[j].op = op /\ calls[j].idx = k /\ calls[j].out \in outs

CountCalls(op) == Cardinality({j \in 1..Len(calls) : calls[j].op = op})

LoginSucceeded == HasCall("login", 0, {"ok"})
LoginRefused == HasCall("login", 0, {"false"})
BatchReturned == returned.state = "done"

Increasing(recs) ==
    \A a, b \in 1..Len(recs) : a < b => recs[a].index < recs[b].index

\* C1: when authentication succeeded and process_csv_batch returned, results
\* and errors together hold exactly len(urls) outcomes, the identifier at
\* position k has exactly one outcome, that outcome carries index k and that
\* identifier, and indices rise along both lists.
C1_OneOutcomePerIdentifier ==
    (BatchReturned /\ LoginSucceeded) =>
        LET rs == returned.results
            es == returned.errors
        IN  /\ Len(urls) > 0
            /\ Len(rs) + Len(es) = Len(urls)
            /\ \A k \in 1..Len(urls) :
                 LET R == {j \in 1..Len(rs) : rs[j].index = k}
                     E == {j \in 1..Len(es) : es[j].index = k}
                 IN  /\ Cardinality(R) + Cardinality(E) = 1
                     /\ \A j \in R : rs[j].url = urls[k]
                     /\ \A j \in E : es[j].url = urls[k]
            /\ Increasing(rs)
            /\ Increasing(es)

\* a returned run over the same identifier twice, one pass a Failure and the
\* other a Success
C1_Witness ==
    /\ BatchReturned /\ LoginSucceeded
    /\ Len(urls) = 2 /\ urls[1] = urls[2]
    /\ returned.results # <<>> /\ returned.errors # <<>>

FailureAt(k) == \E j \in 1..Len(returned.errors) : returned.errors[j].index = k
SuccessAt(k) == \E j \in 1..Len(returned.results) : returned.results[j].index = k

\* navigation, extraction and summarization of item m all succeeded
AllSucceeded(m) ==
    /\ HasCall("goto", m, {"ok"})
    /\ HasCall("scrape", m, {"nameless", "named"})
    /\ HasCall("analyze", m, {"ok"})

\* C2: in a returned run, after a Failure for identifier k every later
\* identifier was still navigated to and every later identifier whose three
\* steps succeeded has a Success; no step of the run removes or changes a
\* Success already recorded, and the run returns the recorded Successes.
C2_FailureIsolated ==
    /\ []((BatchReturned /\ LoginSucceeded) =>
            \A k \in 1..Len(urls) :
               FailureAt(k) =>
                  \A m \in (k + 1)..Len(urls) :
                     /\ HasCall("goto", m, {"ok", "raise"})
                     /\ AllSucceeded(m) => SuccessAt(m))
    /\ [][/\ Len(results') >= Len(results)
          /\ \A j \in 1..Len(results) : results'[j] = results[j]
          /\ (returned.state # "done" /\ returned'.state = "done" /\ LoginSucceeded)
                => returned'.results = results]_vars

\* a Failure raised by the first item, followed by a Success for the second
C2_Witness ==
    /\ BatchReturned /\ LoginSucceeded
    /\ Len(urls) = 2
    /\ FailureAt(1) /\ HasCall("goto", 1, {"raise"}) /\ SuccessAt(2)

CloseIndex == CHOOSE j \in 1..Len(calls) : calls[j].op = "close"

\* the positions at which the batch is still running inside its try block
InBatch == LoopPcs \cup {"login", "finally"}

\* C3: close() is never invoked twice, and once a run that acquired a
\* session has left the batch (by return or by a propagating exception)
\* close() has been invoked exactly once, after every login, navigate and
\* extract call.
C3_CloseOnce ==
    /\ CountCalls("close") <= 1
    /\ (session # "none" /\ pc \notin InBatch) =>
          /\ CountCalls("close") = 1
          /\ session = "closed"
          /\ \A j \in 1..Len(calls) :
                calls[j].op \in {"login", "goto", "scrape"} => j < CloseIndex

\* a run in which an item raised and which was closed once on the way out
C3_Witness ==
    /\ pc = "returned"
    /\ \E k \in 1..Len(urls) : HasCall("goto", k, {"raise"})
    /\ CountCalls("close") = 1

SessionWork == {"goto", "scrape", "analyze"}

NoItemWork == \A j \in 1..Len(calls) : calls[j].op \notin SessionWork

\* C4 as stated: a refused login returns exactly one Failure with index 0
\* whose reason is "login_failed", no Success, and no item is navigated to,
\* extracted or summarized.
C4_ReasonLoginFailed ==
    LoginRefused =>
        /\ NoItemWork
        /\ BatchReturned =>
              /\ returned.results = <<>>
              /\ Len(returned.errors) = 1
              /\ returned.errors[1].index = 0
              /\ returned.errors[1].error = <<"login_failed">>

\* C4 amended: a refused login returns exactly one Failure with index 0,
\* "login_failed" in the identifier field and the reason "Failed to login to
\* LinkedIn", no Success, and no item is navigated to, extracted or
\* summarized.
C4_LoginFailed ==
    LoginRefused =>
        /\ NoItemWork
        /\ BatchReturned =>
              /\ returned.results = <<>>
              /\ returned.errors =
                    <<[url |-> <<"login_failed">>,
                       error |-> <<"Failed to login to LinkedIn">>,
                       index |-> 0]>>

\* a run that returned after a refused login
C4_Witness == LoginRefused /\ BatchReturned /\ pc = "returned"

\* C5: when a user interrupt arrived while item i was being processed and
\* the batch has been left, item i has a Failure outcome, the session is
\* closed, and the outcomes gathered so far have been returned.
C5_InterruptRecorded ==
    (exc.type = "KeyboardInterrupt" /\ i >= 1 /\ pc \notin InBatch) =>
        /\ \E j \in 1..Len(errors) : errors[j].index = i
        /\ session = "closed"
        /\ returned.state = "done"
        /\ returned.results = results

ColumnPresent ==
    /\ ~csv.fieldnames_none
    /\ \E k \in 1..Len(csv.fieldnames) : csv.fieldnames[k] = url_column

\* position of the designated column in the header
ColumnAt == CHOOSE k \in 1..Len(csv.fieldnames) : csv.fieldnames[k] = url_column

\* a row's designated cell is wanted: present, non-empty once trimmed, and
\* holding the profile-locator pattern
Wanted(row) ==
    /\ Len(row) >= ColumnAt
    /\ Strip(row[ColumnAt]) # <<>>
    /\ Contains(row[ColumnAt], Pattern)

RECURSIVE KeptCells(_)
KeptCells(rows) ==
    IF rows = <<>> THEN <<>>
    ELSE IF Wanted(Head(rows))
         THEN <<Strip(Head(rows)[ColumnAt])>> \o KeptCells(Tail(rows))
         ELSE KeptCells(Tail(rows))

\* C6: with the designated column present, parsing raises nothing for a row
\* whose cell is empty, missing or not a profile locator, and the identifiers
\* it yields are exactly the wanted cells in row order.
C6_ParserSkips ==
    (pc # "start" /\ ColumnPresent) =>
        /\ exc.type # "AttributeError"
        /\ KeptCells(csv.rows) # <<>> => urls = KeptCells(csv.rows)

\* C7: with the named column absent, the call fails with the column error
\* naming every column found, and nothing else has happened: no session, no
\* collaborator call, no outcome.
C7_SchemaError ==
    (pc # "start" /\ ~ColumnPresent) =>
        /\ pc \in {"raised", "redirected"}
        /\ exc.type = "ValueError"
        /\ \A k \in 1..Len(csv.fieldnames) :
              \E m \in 1..Len(exc.msg) : exc.msg[m] = csv.fieldnames[k]
        /\ session = "none" /\ calls = <<>>
        /\ results = <<>> /\ errors = <<>> /\ returned.state = "none"

\* the filter loop ran over every row and kept none
ZeroValid ==
    /\ ColumnPresent
    /\ \A k \in 1..Len(csv.rows) : Len(csv.rows[k]) >= ColumnAt
    /\ KeptCells(csv.rows) = <<>>

AnyOut == {"ok", "raise", "none", "error"}

\* C9 as stated: a record without a name is never summarized and never
\* becomes a Success, and no row of the results artifact has
\* scraping_success = "No".
C9_NamelessIsFailure ==
    /\ \A k \in 1..Len(urls) :
          HasCall("scrape", k, {"nameless"}) =>
             /\ ~HasCall("analyze", k, AnyOut)
             /\ \A j \in 1..Len(results) : results[j].index # k
    /\ \A j \in 1..Len(files.results.rows) :
          files.results.rows[j].scraping_success # "No"

\* C9 amended: when extraction returns no record or an empty record, the
\* item is recorded as a Failure, never as a Success, and is not summarized;
\* a non-empty record without a name is summarized, becomes a Success when
\* summarization succeeds, and its row of the results artifact has
\* scraping_success = "No" (every other row has "Yes").
C9_UnusableRecord ==
    /\ \A k \in 1..Len(urls) :
          /\ HasCall("scrape", k, {"none", "empty"}) =>
                /\ ~HasCall("analyze", k, AnyOut)
                /\ \A j \in 1..Len(results) : results[j].index # k
                /\ \E j \in 1..Len(errors) :
                      /\ errors[j].index = k
                      /\ errors[j].error = <<"Failed to scrape", " profile: ">> \o urls[k]
          /\ (HasCall("scrape", k, {"nameless"}) /\ HasCall("analyze", k, {"ok"})) =>
                \E j \in 1..Len(results) :
                   /\ results[j].index = k
                   /\ "name" \notin results[j].profile_data.keys
    /\ files.results.exists =>
          /\ Len(files.results.rows) <= Len(returned.results)
          /\ files.results.complete =>
                Len(files.results.rows) = Len(returned.results)
          /\ \A j \in 1..Len(files.results.rows) :
                files.results.rows[j].scraping_success =
                   IF "name" \in returned.results[j].profile_data.keys
                   THEN "Yes" ELSE "No"

\* a results artifact with a "No" row, from a run in which another item's
\* extraction returned nothing usable
C9_Witness ==
    /\ files.results.exists
    /\ \E j \in 1..Len(files.results.rows) :
          files.results.rows[j].scraping_success = "No"
    /\ \E k \in 1..Len(urls) : HasCall("scrape", k, {"none", "empty"})

\* C10: once save_batch_results has ended without a disk error, it raised
\* no division error, the summary holds a success-rate line, and for a
\* non-zero total that line is successes / total as a percentage to the
\* nearest tenth.
C10_SuccessRate ==
    (pc \in {"save_returned", "save_raised"} /\ exc.type # "OSError") =>
        LET s == files.summary.rows[1]
        IN  /\ exc.type # "ZeroDivisionError"
            /\ files.summary.complete
            /\ s.rate_written
            /\ s.total > 0 =>
                  /\ 2 * (s.rate * s.total - 1000 * s.successes) <= s.total
                  /\ 2 * (1000 * s.successes - s.rate * s.total) <= s.total

\* C11 as stated: no navigate to an identifier happens before the short
\* pause for that identifier has been taken.
C11_PauseBeforeNavigate ==
    \A j \in 1..Len(calls) :
       calls[j].op = "goto" =>
          \E m \in 1..(j - 1) :
             calls[m].op = "delay_2_4" /\ calls[m].idx = calls[j].idx

\* C11 amended: the short pause for an identifier is taken right after the
\* session navigated to that identifier and before its page is extracted:
\* every short pause directly follows a navigate to the same identifier that
\* returned, every extract directly follows the short pause for the same
\* identifier, and a navigate that returned is followed by nothing but that
\* pause (or by close, when the run is interrupted).
C11_PauseAfterNavigate ==
    \A j \in 1..Len(calls) :
       /\ calls[j].op = "delay_2_4" =>
             j > 1 /\ calls[j - 1] = Call("goto", calls[j].idx, "ok")
       /\ calls[j].op = "scrape" =>
             j > 1 /\ calls[j - 1] = Call("delay_2_4", calls[j].idx, "ok")
       /\ (calls[j].op = "goto" /\ calls[j].out = "ok" /\ j < Len(calls)) =>
             \/ calls[j + 1] = Call("delay_2_4", calls[j].idx, "ok")
             \/ calls[j + 1].op = "close"

\* the second identifier's page has been extracted
C11_Witness ==
    \E j \in 1..Len(calls) : calls[j].op = "scrape" /\ calls[j].idx = 2

\* C12: in a returned run of n identifiers the long pause has been taken
\* after each of the items 1..n-1, not after item n, n-1 times in all.
C12_PauseBetweenItems ==
    (BatchReturned /\ LoginSucceeded) =>
        /\ \A k \in 1..(Len(urls) - 1) : HasCall("delay_3_6", k, {"ok"})
        /\ ~HasCall("delay_3_6", Len(urls), {"ok"})
        /\ CountCalls("delay_3_6") = Len(urls) - 1

ErrorTypes == {"scraping_error", "analysis_error"}

\* C13: every row of the errors artifact has error_type scraping_error when
\* its reason holds "Failed to scrape" and analysis_error when it does not,
\* and no other value.
C13_ErrorType ==
    \A j \in 1..Len(files.errors.rows) :
       LET row == files.errors.rows[j] IN
         /\ row.error_type \in ErrorTypes
         /\ row.error_type = "scraping_error" <=>
               \E m \in 1..Len(row.error) : row.error[m] = "Failed to scrape"

\* an errors artifact holding a row of each type
C13_Witness ==
    /\ files.errors.exists
    /\ \E j \in 1..Len(files.errors.rows) :
          files.errors.rows[j].error_type = "scraping_error"
    /\ \E j \in 1..Len(files.errors.rows) :
          files.errors.rows[j].error_type = "analysis_error"

ItemOps == {"goto", "delay_2_4", "scrape", "analyze", "delay_3_6"}

\* C16: a run creates at most one session and logs in at most once, right
\* after creating it; every navigate and extract call comes after a login
\* that succeeded on that session and before close().
C16_OneSessionAuthOnce ==
    /\ CountCalls("create") <= 1
    /\ CountCalls("login") <= 1
    /\ session # "none" <=> CountCalls("create") = 1
    /\ \A j \in 1..Len(calls) :
          /\ calls[j].op = "login" => j = 2 /\ calls[1].op = "create"
          /\ calls[j].op \in {"goto", "scrape"} =>
                /\ calls[1].op = "create"
                /\ calls[2] = Call("login", 0, "ok")
                /\ \A m \in 1..j : calls[m].op # "close"

\* a closed run that navigated to and extracted its second identifier
C16_Witness ==
    /\ session = "closed"
    /\ \E j \in 1..Len(calls) : calls[j].op = "scrape" /\ calls[j].idx = 2

OutcomeFor(k) ==
    \/ \E j \in 1..Len(results) : results[j].index = k
    \/ \E j \in 1..Len(errors) : errors[j].index = k

C18_EndToEndType ==
    \A j \in 1..Len(files.errors.rows) :
       LET row == files.errors.rows[j]
           k == row.index
       IN  /\ (\/ HasCall("goto", k, {"raise"})
               \/ HasCall("scrape", k, {"raise", "none", "empty"}))
                 => row.error_type = "scraping_error"
           /\ HasCall("analyze", k, {"raise", "none", "error"})
                 => row.error_type = "analysis_error"

SavePcs == {"save_results", "save_errors", "save_summary", "save_returned",
            "save_raised", "sent"}

\* C19: a normal return of process_csv_batch never has results and errors
\* both empty; the route therefore always goes on from the return to
\* save_batch_results, which it never enters with no outcome at all.
C19_NeverEmptyReturn ==
    /\ [](BatchReturned =>
            (returned.results # <<>> \/ returned.errors # <<>>))
    /\ [](pc \in SavePcs =>
            Len(returned.results) + Len(returned.errors) > 0)
    /\ [][pc = "returned" => pc' = "save_results"]_vars

\* the route entering save_batch_results with the one outcome a refused
\* login leaves
C19_Witness ==
    /\ pc = "save_results"
    /\ Len(returned.results) + Len(returned.errors) = 1
    /\ LoginRefused

\* C14: a results artifact that was written out has exactly one row per
\* Success, in order; an errors artifact exists only when there is a Failure
\* and, written out, has exactly one row per Failure; once the writing of
\* both has passed without a disk error the results artifact is whole and
\* the errors artifact is there exactly when there is a Failure; and the
\* errors artifact id returned is absent exactly when there is no Failure.
C14_OneRowPerOutcome ==
    LET rs == returned.results
        es == returned.errors
    IN  /\ files.results.complete =>
              /\ Len(files.results.rows) = Len(rs)
              /\ \A j \in 1..Len(rs) :
                    /\ files.results.rows[j].profile_url = rs[j].url
                    /\ files.results.rows[j].processing_index = rs[j].index
        /\ files.errors.exists => es # <<>>
        /\ files.errors.complete =>
              /\ Len(files.errors.rows) = Len(es)
              /\ \A j \in 1..Len(es) :
                    /\ files.errors.rows[j].profile_url = es[j].url
                    /\ files.errors.rows[j].index = es[j].index
        /\ (pc \in {"save_summary", "save_returned", "sent"}
              \/ (pc = "save_raised" /\ files.summary.exists)) =>
              /\ files.results.complete
              /\ files.errors.exists <=> es # <<>>
              /\ files.errors.exists => files.errors.complete
        /\ saved.state = "returned" => (saved.errors_name <=> es # <<>>)

\* save_batch_results returned for two Successes and no Failure
C14_Witness ==
    /\ saved.state = "returned"
    /\ Len(returned.results) = 2 /\ returned.errors = <<>>
    /\ ~files.errors.exists /\ ~saved.errors_name

\* C15: after a write failed in save_batch_results the error has been
\* raised to the caller and every artifact that exists is complete.
C15_AtomicArtifacts ==
    (pc = "save_raised" /\ exc.type = "OSError") =>
        /\ saved.state = "raised"
        /\ \A f \in {"results", "errors", "summary"} :
              files[f].exists => files[f].complete

\* C20: no artifact file is written by two different batch runs: the
\* results, errors and summary files of one run are never opened for
\* writing by the other.
C20_DistinctArtifacts ==
    \A a \in disk, b \in disk : a.name = b.name => a.by = b.by

\* C21: after a refused login the route does not redirect on the returned
\* lists but goes on to save_batch_results, and only a disk error stops it;
\* no artifact is written before the session is closed; the results artifact
\* once written out has no row, the errors artifact has exactly one row,
\* with index 0 and the login marker, and the summary reports total 1,
\* 0 successes, 1 failure and a success rate of 0.0%; and when
\* save_batch_results has returned all three artifacts are written out.
C21_LoginFailureSaved ==
    LoginRefused =>
        /\ pc \in {"redirected", "save_raised"} => exc.type = "OSError"
        /\ (pc \in SavePcs \/ files # NoFiles) =>
              /\ session = "closed"
              /\ CountCalls("close") = 1
              /\ returned = Returning("done", <<>>, <<LoginFailure>>)
        /\ files.results.exists => files.results.rows = <<>>
        /\ files.errors.complete =>
              /\ Len(files.errors.rows) = 1
              /\ files.errors.rows[1].index = 0
              /\ files.errors.rows[1].profile_url = <<"login_failed">>
              /\ files.errors.rows[1].error = <<"Failed to login to LinkedIn">>
        /\ files.summary.complete =>
              /\ Len(files.summary.rows) = 1
              /\ files.summary.rows[1].total = 1
              /\ files.summary.rows[1].successes = 0
              /\ files.summary.rows[1].failures = 1
              /\ files.summary.rows[1].rate_written
              /\ files.summary.rows[1].rate = 0
        /\ pc \in {"save_returned", "sent"} =>
              /\ files.results.complete
              /\ files.errors.complete
              /\ files.summary.complete
              /\ saved = [state |-> "returned", errors_name |-> TRUE]

\* the route has sent the results file of a batch whose login was refused
C21_Witness ==
    /\ LoginRefused
    /\ pc = "sent"
    /\ files.results.complete /\ files.errors.complete /\ files.summary.complete

====
